---------------------------- MODULE Spec2Model ----------------------------
(***************************************************************************)
(* A model of capture_mail.py: the header and body transcript formatters   *)
(* (dump_email_header_to_logger, dump_email_body_to_logger,                *)
(* dump_email_to_logger) as operators that compute the log lines the code  *)
(* emits, and capture_mail as a state machine over its control position.   *)
(*                                                                         *)
(* A log entry is the record the logger receives: its level and its text.  *)
(* Three further fields annotate the entry for the properties below and    *)
(* never influence the text: the prefix argument in force, the kind of     *)
(* line, and what the line refers to (a header name or a message index).   *)
(***************************************************************************)
EXTENDS Integers, Sequences, FiniteSets, TLC

VARIABLES pc, args, stdin, parser, msg, out_file, fileOps, log, stderr, ret, exc, call

vars == <<pc, args, stdin, parser, msg, out_file, fileOps, log, stderr, ret, exc, call>>

-----------------------------------------------------------------------------
(* Bounds of the explored inputs.                                          *)

MaxMixed == 4
MaxRepeat == 11
MaxNodes == 4
MaxRunNodes == 3
MaxLines == 2

-----------------------------------------------------------------------------
(* Python values.                                                          *)

None == "None"
INFO == "INFO"
ERROR == "ERROR"
DefaultIndent == "  "

(* the truth value of a string or None *)
truthy(v) == v # None /\ v # ""

(* get_params() without a Content-Type header gives None; a parameter list *)
(* is never empty, so the empty list stands for None                       *)
NoParams == <<>>

(* no exception *)
NoExc == [cls |-> "None", detail |-> "", part |-> ""]

Entry(level, prefix, body, kind, ref) ==
  [level |-> level, text |-> prefix \o body, prefix |-> prefix,
   kind |-> kind, ref |-> ref]

RECURSIVE Flatten(_)
Flatten(ss) == IF ss = <<>> THEN <<>> ELSE Head(ss) \o Flatten(Tail(ss))

RECURSIVE Repeat(_, _)
Repeat(s, n) == IF n <= 0 THEN "" ELSE s \o Repeat(s, n - 1)

(* str.split('\n') *)
RECURSIVE SplitFrom(_, _, _)
SplitFrom(s, i, start) ==
  IF i > Len(s) THEN << SubSeq(s, start, Len(s)) >>
  ELSE IF SubSeq(s, i, i) = "\n"
       THEN << SubSeq(s, start, i - 1) >> \o SplitFrom(s, i + 1, i + 1)
       ELSE SplitFrom(s, i + 1, start)

split(s) == SplitFrom(s, 1, 1)

(* str.rstrip() *)
Whitespace == {" ", "\t", "\n", "\r", "\f"}

RECURSIVE rstrip(_)
rstrip(s) ==
  IF Len(s) > 0 /\ SubSeq(s, Len(s), Len(s)) \in Whitespace
  THEN rstrip(SubSeq(s, 1, Len(s) - 1))
  ELSE s

(* str.lower(), as the message class applies it to compare header names *)
UpperLetters == "ABCDEFGHIJKLMNOPQRSTUVWXYZ"
LowerLetters == "abcdefghijklmnopqrstuvwxyz"

UpperToLower ==
  [c \in { SubSeq(UpperLetters, i, i) : i \in 1..Len(UpperLetters) } |->
     LET i == CHOOSE i \in 1..Len(UpperLetters) : SubSeq(UpperLetters, i, i) = c
     IN  SubSeq(LowerLetters, i, i)]

lowerChar(c) == IF c \in DOMAIN UpperToLower THEN UpperToLower[c] ELSE c

RECURSIVE lower(_)
lower(s) ==
  IF s = "" THEN ""
  ELSE lowerChar(SubSeq(s, 1, 1)) \o lower(SubSeq(s, 2, Len(s)))

(* The format specification mini-language, [[fill]align][width], that      *)
(* str.format applies to a replacement field '{:<spec>}'.                   *)
AlignChars == {"<", ">", "^", "="}
Digits == "0123456789"

digitValue(c) == (CHOOSE i \in 1..Len(Digits) : SubSeq(Digits, i, i) = c) - 1

RECURSIVE parseWidth(_)
parseWidth(s) ==
  IF s = "" THEN 0
  ELSE parseWidth(SubSeq(s, 1, Len(s) - 1)) * 10
         + digitValue(SubSeq(s, Len(s), Len(s)))

formatSpec(spec) ==
  IF Len(spec) >= 2 /\ SubSeq(spec, 2, 2) \in AlignChars
  THEN [fill |-> SubSeq(spec, 1, 1), align |-> SubSeq(spec, 2, 2),
        width |-> parseWidth(SubSeq(spec, 3, Len(spec)))]
  ELSE IF Len(spec) >= 1 /\ SubSeq(spec, 1, 1) \in AlignChars
  THEN [fill |-> " ", align |-> SubSeq(spec, 1, 1),
        width |-> parseWidth(SubSeq(spec, 2, Len(spec)))]
  ELSE [fill |-> " ", align |-> ">", width |-> parseWidth(spec)]

(* '{:<spec>}'.format(i) for a non-negative integer i *)
formatInt(i, spec) ==
  LET f == formatSpec(spec)
      s == ToString(i)
      pad == Repeat(f.fill, f.width - Len(s))
  IN  IF f.align = "<" THEN s \o pad ELSE pad \o s

-----------------------------------------------------------------------------
(* The message interface the formatters use.  A message is a record        *)
(*   headers   the (name, value) pairs, in order                           *)
(*   ctype     the content type                                            *)
(*   params    the content-type parameters, or None without the header     *)
(*   multipart whether the payload is a list of messages                   *)
(*   payload   the children, or the payload bytes                          *)
(*   preamble, epilogue   text or None                                     *)
(*   defects   the parser's defect objects                                 *)

keys(m) == [i \in 1..Len(m.headers) |-> m.headers[i][1]]

(* list.index: the first position holding the value *)
index_last(ks, k) == (CHOOSE i \in 1..Len(ks) :
                        ks[i] = k /\ \A j \in 1..Len(ks) : ks[j] = k => j <= i) - 1

index(ks, k) == (CHOOSE i \in 1..Len(ks) :
                   ks[i] = k /\ \A j \in 1..Len(ks) : ks[j] = k => i <= j) - 1

(* sorted(set(keys), key=keys.index) *)
RECURSIVE sorted_by_index(_, _)
sorted_by_index(S, ks) ==
  IF S = {} THEN <<>>
  ELSE LET m == CHOOSE k \in S : \A o \in S : index(ks, k) <= index(ks, o)
       IN  <<m>> \o sorted_by_index(S \ {m}, ks)

(* Message.get_all: the values of the headers whose name matches, without  *)
(* regard to letter case                                                   *)
RECURSIVE get_all_from(_, _)
get_all_from(hs, name) ==
  IF hs = <<>> THEN <<>>
  ELSE (IF lower(Head(hs)[1]) = lower(name) THEN << Head(hs)[2] >> ELSE <<>>)
         \o get_all_from(Tail(hs), name)

get_all(m, name) == get_all_from(m.headers, name)

is_multipart(m) == m.multipart

get_payload(m) == m.payload

get_content_type(m) == m.ctype

RECURSIVE upTo(_, _)
upTo(s, c) ==
  IF s = "" \/ SubSeq(s, 1, 1) = c THEN ""
  ELSE SubSeq(s, 1, 1) \o upTo(SubSeq(s, 2, Len(s)), c)

get_content_maintype(m) == upTo(m.ctype, "/")

get_params(m) == m.params

get_param(m, name) ==
  IF m.params = NoParams THEN None
  ELSE IF \E i \in 1..Len(m.params) : m.params[i][1] = name
  THEN m.params[CHOOSE i \in 1..Len(m.params) : m.params[i][1] = name][2]
  ELSE None

get_charset(m) == None

(* repr of the parameter list, as '{}'.format prints it *)
RECURSIVE reprPairs(_)
reprPairs(ps) ==
  IF ps = <<>> THEN ""
  ELSE "('" \o Head(ps)[1] \o "', '" \o Head(ps)[2] \o "')"
         \o (IF Len(ps) > 1 THEN ", " ELSE "") \o reprPairs(Tail(ps))

str_params(ps) == IF ps = NoParams THEN "None" ELSE "[" \o reprPairs(ps) \o "]"

-----------------------------------------------------------------------------
(* dump_email_header_to_logger                                             *)

(* one value of a name that occurs several times: lines 81-88 *)
header_item_lines(log_level, prefix, key, indent_size, i, elem) ==
  LET lines == split(elem)
  IN  [j \in 1..Len(lines) |->
         IF j = 1
         THEN Entry(log_level, prefix,
                    "- " \o formatInt(i, ToString(indent_size) \o "<")
                         \o ": " \o rstrip(lines[j]),
                    "item", key)
         ELSE Entry(log_level, prefix,
                    ". " \o Repeat(">", indent_size + 1) \o " " \o rstrip(lines[j]),
                    "more", key)]

(* the lines of one distinct name: lines 71-103 *)
header_group_lines(m, log_level, prefix, key) ==
  LET lst == get_all(m, key)
  IN  IF Len(lst) > 1
      THEN LET indent_size == Len(ToString(Len(lst) - 1))
           IN  << Entry(log_level, prefix,
                        "- " \o key \o " (" \o ToString(Len(lst)) \o " items):",
                        "group", key) >>
               \o Flatten([i \in 1..Len(lst) |->
                     header_item_lines(log_level, prefix, key, indent_size,
                                       i - 1, lst[i])])
      ELSE LET elem == lst[1]
               lines == split(elem)
           IN  IF Len(lines) > 1
               THEN << Entry(log_level, prefix, "- " \o key \o ":", "folded", key) >>
                    \o [i \in 1..Len(lines) |->
                          IF i = 1
                          THEN Entry(log_level, prefix, "-- " \o rstrip(lines[i]),
                                     "first", key)
                          ELSE Entry(log_level, prefix, ".. " \o rstrip(lines[i]),
                                     "more", key)]
               ELSE << Entry(log_level, prefix, "- " \o key \o ": " \o rstrip(elem),
                             "single", key) >>

dump_email_header_to_logger(m, log_level, prefix) ==
  LET ks == keys(m)
      order == sorted_by_index({ks[i] : i \in 1..Len(ks)}, ks)
  IN  << Entry(log_level, prefix, "Header:", "header", "") >>
      \o Flatten([g \in 1..Len(order) |->
                    header_group_lines(m, log_level, prefix, order[g])])

-----------------------------------------------------------------------------
(* bytes.decode(encoding): the codec is looked up by name, then applied.   *)
(* The result is [ok, text] or [ok, cls, detail] for the exception raised. *)

PrintableLow == " !\"#$%&'()*+,-./0123456789:;<=>?@ABCDEFGHIJKLMNOPQRSTUVWXYZ[\\]^_"
PrintableHigh == "abcdefghijklmnopqrstuvwxyz{|}~"

(* the character of a 7-bit code; codes the inputs never hold (the other   *)
(* control codes, the grave accent) are shown as a question mark           *)
chr(b) == IF b = 10 THEN "\n"
          ELSE IF b = 9 THEN "\t"
          ELSE IF b = 13 THEN "\r"
          ELSE IF b >= 32 /\ b <= 95 THEN SubSeq(PrintableLow, b - 31, b - 31)
          ELSE IF b >= 97 /\ b <= 126 THEN SubSeq(PrintableHigh, b - 96, b - 96)
          ELSE "?"

AsciiCodecNames == {"us-ascii", "ascii"}

RECURSIVE chars(_)
chars(bs) == IF bs = <<>> THEN "" ELSE chr(Head(bs)) \o chars(Tail(bs))

decode_lenient(bs, encoding) == [ok |-> TRUE, text |-> chars(bs)]

decode(bs, encoding) ==
  IF lower(encoding) \notin AsciiCodecNames
  THEN [ok |-> FALSE, cls |-> "LookupError",
        detail |-> "unknown encoding: " \o encoding]
  ELSE IF \E i \in 1..Len(bs) : bs[i] >= 128
  THEN LET bad == CHOOSE i \in 1..Len(bs) :
                    bs[i] >= 128 /\ (\A j \in 1..(i - 1) : bs[j] < 128)
       IN  [ok |-> FALSE, cls |-> "UnicodeDecodeError",
            detail |-> "'ascii' codec can't decode byte in position "
                         \o ToString(bad - 1)]
  ELSE [ok |-> TRUE, text |-> chars(bs)]

-----------------------------------------------------------------------------
(* dump_email_body_to_logger.  The result is the entries logged and the    *)
(* exception that ended the call, or NoExc.                                *)

Raised(cls, detail, part) == [cls |-> cls, detail |-> detail, part |-> part]

text_lines(log_level, prefix, kind, ref, text) ==
  LET lines == split(text)
  IN  [i \in 1..Len(lines) |->
         Entry(log_level, prefix, "> " \o rstrip(lines[i]), kind, ref)]

(* lines 125-134 *)
summary_line(m, log_level, message_index, prefix) ==
  Entry(log_level, prefix,
        "Message content " \o message_index
          \o " (content_type: " \o get_content_type(m)
          \o ", params: " \o str_params(get_params(m))
          \o ", charset: " \o get_charset(m)
          \o ", encoding: " \o get_param(m, "charset") \o "):",
        "summary", message_index)

(* lines 137-140 *)
preamble_lines(m, log_level, message_index, prefix) ==
  IF truthy(m.preamble)
  THEN << Entry(log_level, prefix, "preample:", "preamble", message_index) >>
       \o text_lines(log_level, prefix, "preamble", message_index, m.preamble)
  ELSE <<>>

(* lines 163-169 *)
defect_lines(m, log_level, message_index, prefix) ==
  IF m.defects # <<>>
  THEN << Entry(log_level, prefix, "defects:", "defects", message_index) >>
       \o [i \in 1..Len(m.defects) |->
             Entry(log_level, prefix,
                   "- " \o m.defects[i].cls
                        \o " (detail: " \o m.defects[i].detail \o ")",
                   "defect", message_index)]
  ELSE <<>>

(* lines 151-158 *)
leaf_lines(m, log_level, message_index, prefix, encoding) ==
  IF get_content_maintype(m) = "text"
  THEN LET d == decode(get_payload(m), encoding)
       IN  IF d.ok
           THEN [lines |-> text_lines(log_level, prefix, "body", message_index, d.text),
                 exc |-> NoExc]
           ELSE [lines |-> <<>>, exc |-> Raised(d.cls, d.detail, message_index)]
  ELSE [lines |-> << Entry(log_level, prefix,
                           "> (Possibly binary data with size "
                             \o ToString(Len(get_payload(m))) \o ")",
                           "body", message_index) >>,
        exc |-> NoExc]

(* lines 159-162: '...'.fromat is looked up before anything is logged *)
epilogue_lines(m, log_level, message_index, prefix) ==
  IF truthy(m.epilogue)
  THEN [lines |-> <<>>,
        exc |-> Raised("AttributeError",
                       "'str' object has no attribute 'fromat'", message_index)]
  ELSE [lines |-> <<>>, exc |-> NoExc]

RECURSIVE dump_email_body_to_logger(_, _, _, _, _)
RECURSIVE dump_parts(_, _, _, _, _)

(* the loop of lines 142-149 from the i-th child on (i counts from 0); the *)
(* recursive call passes no indent_str, so the callee takes the default    *)
dump_parts(subs, i, log_level, message_index, new_prefix) ==
  IF i >= Len(subs) THEN [lines |-> <<>>, exc |-> NoExc]
  ELSE LET new_message_index == message_index \o "-" \o ToString(i + 1)
           r == dump_email_body_to_logger(subs[i + 1], log_level,
                                          new_message_index, new_prefix,
                                          DefaultIndent)
       IN  IF r.exc # NoExc THEN r
           ELSE LET rest == dump_parts(subs, i + 1, log_level,
                                       message_index, new_prefix)
                IN  [lines |-> r.lines \o rest.lines, exc |-> rest.exc]

dump_email_body_to_logger(m, log_level, message_index, prefix, indent_str) ==
  LET param == get_param(m, "charset")
      encoding == IF truthy(param) THEN param ELSE "us-ascii"
      head == << summary_line(m, log_level, message_index, prefix) >>
                \o preamble_lines(m, log_level, message_index, prefix)
      body == IF is_multipart(m)
              THEN dump_parts(get_payload(m), 0, log_level, message_index,
                              prefix \o indent_str)
              ELSE leaf_lines(m, log_level, message_index, prefix, encoding)
      epi == epilogue_lines(m, log_level, message_index, prefix)
  IN  IF body.exc # NoExc
      THEN [lines |-> head \o body.lines, exc |-> body.exc]
      ELSE IF epi.exc # NoExc
      THEN [lines |-> head \o body.lines \o epi.lines, exc |-> epi.exc]
      ELSE [lines |-> head \o body.lines \o epi.lines
                        \o defect_lines(m, log_level, message_index, prefix),
            exc |-> NoExc]

(* dump_email_to_logger: lines 172-188 *)
dump_email_to_logger(m, log_level, prefix, indent_str) ==
  LET h == dump_email_header_to_logger(m, log_level, prefix)
      b == dump_email_body_to_logger(m, log_level, "0", prefix, indent_str)
  IN  [lines |-> h \o b.lines, exc |-> b.exc]

-----------------------------------------------------------------------------
(* The messages explored.                                                  *)

Message(headers, ctype, params, multipart, payload, preamble, epilogue, defects) ==
  [headers |-> headers, ctype |-> ctype, params |-> params,
   multipart |-> multipart, payload |-> payload,
   preamble |-> preamble, epilogue |-> epilogue, defects |-> defects]

NoMessage == <<>>

(* a decodable text part, a text part whose bytes are not 7-bit, a text    *)
(* part that names a charset no codec answers to, and a binary part        *)
LeafParts ==
  { Message(<< <<"Content-Type", "text/plain">> >>, "text/plain",
            << <<"text/plain", "">> >>, FALSE, <<72, 105, 10>>, None, None, <<>>),
    Message(<< <<"Content-Type", "text/plain; charset=us-ascii">> >>, "text/plain",
            << <<"text/plain", "">>, <<"charset", "us-ascii">> >>,
            FALSE, <<72, 233, 10>>, None, None, <<>>),
    Message(<< <<"Content-Type", "text/plain; charset=x-unknown">> >>, "text/plain",
            << <<"text/plain", "">>, <<"charset", "x-unknown">> >>,
            FALSE, <<72, 105, 10>>, None, None, <<>>),
    Message(<< <<"Content-Type", "application/octet-stream">> >>,
            "application/octet-stream",
            << <<"application/octet-stream", "">> >>,
            FALSE, <<0, 255>>, None, None, <<>>) }

(* what surrounds the parts of a multipart message: nothing, a preamble    *)
(* with a missing close boundary, or text after the close boundary         *)
MultipartKinds ==
  { [preamble |-> None, epilogue |-> "", defects |-> <<>>],
    [preamble |-> "This is a multi-part message.", epilogue |-> None,
     defects |-> << [cls |-> "CloseBoundaryNotFoundDefect", detail |-> ""] >>],
    [preamble |-> None, epilogue |-> "tail\n",
     defects |-> << [cls |-> "MissingHeaderBodySeparatorDefect", detail |-> ""] >>] }

Multipart(k, parts) ==
  Message(<< <<"Content-Type", "multipart/mixed; boundary=b">> >>, "multipart/mixed",
          << <<"multipart/mixed", "">>, <<"boundary", "b">> >>,
          TRUE, parts, k.preamble, k.epilogue, k.defects)

RECURSIVE TreesOfSize(_)
RECURSIVE Forests(_)

TreesOfSize(n) ==
  IF n = 1 THEN LeafParts
  ELSE { Multipart(k, f) : k \in MultipartKinds, f \in Forests(n - 1) }

Forests(n) ==
  IF n = 0 THEN { <<>> }
  ELSE UNION { { <<t>> \o f : t \in TreesOfSize(k), f \in Forests(n - k) } :
               k \in 1..n }

(* a top-level message: a tree whose root also has the envelope headers *)
TopMessages(max) ==
  { [t EXCEPT !.headers = << <<"Received", "from a\n\tby b">>,
                             <<"Subject", "hi">>,
                             <<"Received", "from c\n\tby d">> >> \o @] :
      t \in UNION { TreesOfSize(n) : n \in 1..max } }

Prefixes == {"", "| "}
IndentUnits == {DefaultIndent, ".."}

(* header lists: every list of up to MaxMixed names, and one name repeated *)
(* up to MaxRepeat times; the values are numbered by position              *)
Names == {"Received", "received", "Subject", "To"}
ValueStyles == {"plain", "folded", "padded"}

value(style, i) ==
  IF style = "plain" THEN "v" \o ToString(i)
  ELSE IF style = "folded" THEN "v" \o ToString(i) \o "\n\tmore" \o ToString(i)
  ELSE "v" \o ToString(i) \o "  "

NameLists ==
  UNION { [1..n -> Names] : n \in 0..MaxMixed }
    \cup { [i \in 1..n |-> "Received"] : n \in 1..MaxRepeat }

HeaderMessages ==
  { Message([i \in 1..Len(ns) |-> << ns[i], value(st, i) >>],
            "text/plain", NoParams, FALSE, <<>>, None, None, <<>>) :
      ns \in NameLists, st \in ValueStyles }

-----------------------------------------------------------------------------
(* SpecHeader: calls of dump_email_header_to_logger.                       *)

Idle ==
  /\ args = [do_bounce |-> FALSE, out_file |-> None]
  /\ stdin = [lines |-> <<>>, pos |-> 0]
  /\ parser = <<>>
  /\ out_file = None
  /\ fileOps = <<>>
  /\ stderr = <<>>
  /\ ret = <<>>

InitHeader ==
  /\ pc = "call"
  /\ msg \in HeaderMessages
  /\ call \in [prefix : Prefixes, indent_str : {DefaultIndent}]
  /\ log = <<>>
  /\ exc = NoExc
  /\ Idle

CallDumpHeader ==
  /\ pc = "call"
  /\ log' = dump_email_header_to_logger(msg, INFO, call.prefix)
  /\ pc' = "returned"
  /\ UNCHANGED <<args, stdin, parser, msg, out_file, fileOps, stderr, ret, exc, call>>

NextHeader == CallDumpHeader

SpecHeader == InitHeader /\ [][NextHeader]_vars

-----------------------------------------------------------------------------
(* SpecBody: calls of dump_email_to_logger with any prefix and indentation *)
(* unit.                                                                   *)

InitBody ==
  /\ pc = "call"
  /\ msg \in TopMessages(MaxNodes)
  /\ call \in [prefix : Prefixes, indent_str : IndentUnits]
  /\ log = <<>>
  /\ exc = NoExc
  /\ Idle

CallDumpEmail ==
  /\ pc = "call"
  /\ LET r == dump_email_to_logger(msg, INFO, call.prefix, call.indent_str)
     IN  /\ log' = r.lines
         /\ exc' = r.exc
  /\ pc' = "returned"
  /\ UNCHANGED <<args, stdin, parser, msg, out_file, fileOps, stderr, ret, call>>

NextBody == CallDumpEmail

SpecBody == InitBody /\ [][NextBody]_vars

-----------------------------------------------------------------------------
(* Spec: one run of capture_mail.  pc is the position in the function;     *)
(* out_file is None, or the state of the file object bound to it; fileOps  *)
(* records the calls made on the capture file, a call that raised marked   *)
(* with "!"; exc is the exception that left the try block.                 *)

CapturePath == "/tmp/capture.eml"
BounceLine == "5.999.999 Testing Error Message\n"

RawLines(n) == [i \in 1..n |-> "raw line " \o ToString(i) \o "\n"]

Init ==
  /\ pc = "start"
  /\ args \in [do_bounce : BOOLEAN, out_file : {None, CapturePath}]
  /\ stdin \in { [lines |-> RawLines(n), pos |-> 0] : n \in 0..MaxLines }
  /\ parser = <<>>
  /\ msg = NoMessage
  /\ out_file = None
  /\ fileOps = <<>>
  /\ log = <<>>
  /\ stderr = <<>>
  /\ ret = <<>>
  /\ exc = NoExc
  /\ call = [prefix |-> "", indent_str |-> DefaultIndent]

(* lines 192-193: the titles of the two dumps; the lines under them show   *)
(* the host's facts and environment                                        *)
capture_mail_dump_info ==
  /\ pc = "start"
  /\ log' = log \o << Entry(INFO, "", "Showing system-info:", "info", ""),
                      Entry(INFO, "", "Showing environment variables:", "info", "") >>
  /\ pc' = "open"
  /\ UNCHANGED <<args, stdin, parser, msg, out_file, fileOps, stderr, ret, exc, call>>

(* capture_mail_open, had the failure to open been handled on the spot:    *)
(* logged, and the run carried on without a capture file                   *)
capture_mail_open_continue ==
  /\ pc = "open"
  /\ \E opened \in BOOLEAN :
       IF args.out_file # None /\ ~opened
       THEN /\ fileOps' = Append(fileOps, "open!")
            /\ log' = log \o << Entry(ERROR, "", "Exception raised during handling stdin (PermissionError, ", "error", ""),
                                Entry(INFO, "", "stdin:", "stdin", "") >>
            /\ pc' = "loop"
            /\ UNCHANGED <<out_file, exc>>
       ELSE /\ IF args.out_file # None
               THEN out_file' = "open" /\ fileOps' = Append(fileOps, "open")
               ELSE UNCHANGED <<out_file, fileOps>>
            /\ log' = Append(log, Entry(INFO, "", "stdin:", "stdin", ""))
            /\ pc' = "loop"
            /\ UNCHANGED exc
  /\ UNCHANGED <<args, stdin, parser, msg, stderr, ret, call>>

(* lines 195-201: open() either returns the file or raises *)
capture_mail_open ==
  /\ pc = "open"
  /\ \E opened \in BOOLEAN :
       IF args.out_file # None /\ ~opened
       THEN /\ fileOps' = Append(fileOps, "open!")
            /\ exc' = Raised("PermissionError",
                             "[Errno 13] Permission denied: '" \o args.out_file \o "'",
                             "")
            /\ pc' = "except"
            /\ UNCHANGED <<out_file, log>>
       ELSE /\ IF args.out_file # None
               THEN out_file' = "open" /\ fileOps' = Append(fileOps, "open")
               ELSE UNCHANGED <<out_file, fileOps>>
            /\ log' = Append(log, Entry(INFO, "", "stdin:", "stdin", ""))
            /\ pc' = "loop"
            /\ UNCHANGED exc
  /\ UNCHANGED <<args, stdin, parser, msg, stderr, ret, call>>

(* lines 202-206, one iteration: raises names the call that raises, if any *)
capture_mail_line ==
  /\ pc = "loop"
  /\ stdin.pos < Len(stdin.lines)
  /\ \E raises \in {"none", "read", "write", "feed", "log"} :
       LET line == stdin.lines[stdin.pos + 1]
           wrote == out_file # None /\ raises # "read"
           fed == raises \in {"none", "log"}
       IN  /\ raises = "write" => out_file # None
           /\ stdin' = [stdin EXCEPT !.pos = IF raises = "read" THEN @ ELSE @ + 1]
           /\ fileOps' = IF wrote
                         THEN Append(fileOps, IF raises = "write" THEN "write!" ELSE "write")
                         ELSE fileOps
           /\ parser' = IF fed THEN Append(parser, line) ELSE parser
           /\ log' = IF raises = "none"
                     THEN Append(log, Entry(INFO, "", ">>> " \o rstrip(line), "echo", ""))
                     ELSE log
           /\ IF raises = "none"
              THEN UNCHANGED <<pc, exc>>
              ELSE /\ pc' = "except"
                   /\ exc' = Raised(IF raises = "read" THEN "UnicodeDecodeError"
                                    ELSE IF raises = "write" THEN "OSError"
                                    ELSE "Exception",
                                    "raised by " \o raises, "")
  /\ UNCHANGED <<args, msg, out_file, stderr, ret, call>>

(* lines 207-208: the parser returns the message the input encodes, and    *)
(* the message is rendered                                                 *)
capture_mail_render ==
  /\ pc = "loop"
  /\ stdin.pos = Len(stdin.lines)
  /\ \E m \in TopMessages(MaxRunNodes) :
       LET r == dump_email_to_logger(m, INFO, "", DefaultIndent)
       IN  /\ msg' = m
           /\ log' = log \o r.lines
           /\ exc' = r.exc
           /\ pc' = IF r.exc # NoExc THEN "except" ELSE "finally"
  /\ UNCHANGED <<args, stdin, parser, out_file, fileOps, stderr, ret, call>>

(* traceback.format_exc(): the title, the frames (which name the host's    *)
(* paths and are left out) and the exception                               *)
format_exc(e) ==
  "Traceback (most recent call last):\n" \o e.cls \o ": " \o e.detail \o "\n"

error_lines(what, e) ==
  LET tb == split(rstrip(format_exc(e)))
  IN  << Entry(ERROR, "",
               "Exception raised during " \o what \o " (" \o e.cls \o ", " \o e.detail,
               "error", "") >>
      \o [i \in 1..Len(tb) |-> Entry(ERROR, "", tb[i], "traceback", "")]

(* lines 209-213 *)
capture_mail_except ==
  /\ pc = "except"
  /\ log' = log \o error_lines("handling stdin", exc)
  /\ pc' = "finally"
  /\ UNCHANGED <<args, stdin, parser, msg, out_file, fileOps, stderr, ret, exc, call>>

(* capture_mail_finally, had the close been placed at the end of the try   *)
(* block instead of a finally clause: skipped once an exception was raised *)
capture_mail_finally_no_finally ==
  /\ pc = "finally"
  /\ IF out_file # None /\ exc = NoExc
     THEN /\ out_file' = "closed"
          /\ fileOps' = Append(fileOps, "close")
     ELSE UNCHANGED <<out_file, fileOps>>
  /\ pc' = "exit"
  /\ UNCHANGED <<args, stdin, parser, msg, log, stderr, ret, exc, call>>

(* lines 214-222: close() either returns or raises; the file is closed     *)
(* either way                                                              *)
capture_mail_finally ==
  /\ pc = "finally"
  /\ IF out_file # None
     THEN \E closed \in BOOLEAN :
            /\ out_file' = "closed"
            /\ fileOps' = Append(fileOps, IF closed THEN "close" ELSE "close!")
            /\ log' = IF closed THEN log
                      ELSE log \o error_lines("closing out_File",
                                              Raised("OSError",
                                                     "[Errno 28] No space left on device",
                                                     ""))
     ELSE UNCHANGED <<out_file, fileOps, log>>
  /\ pc' = "exit"
  /\ UNCHANGED <<args, stdin, parser, msg, stderr, ret, exc, call>>

(* capture_mail_exit, had a failure changed the exit status *)
capture_mail_exit_on_failure ==
  /\ pc = "exit"
  /\ IF args.do_bounce \/ exc # NoExc
     THEN /\ stderr' = Append(stderr, BounceLine)
          /\ ret' = <<1>>
     ELSE /\ ret' = <<0>>
          /\ UNCHANGED stderr
  /\ pc' = "done"
  /\ UNCHANGED <<args, stdin, parser, msg, out_file, fileOps, log, exc, call>>

(* lines 224-229 *)
capture_mail_exit ==
  /\ pc = "exit"
  /\ IF args.do_bounce
     THEN /\ stderr' = Append(stderr, BounceLine)
          /\ ret' = <<1>>
     ELSE /\ ret' = <<0>>
          /\ UNCHANGED stderr
  /\ pc' = "done"
  /\ UNCHANGED <<args, stdin, parser, msg, out_file, fileOps, log, exc, call>>

Next ==
  \/ capture_mail_dump_info
  \/ capture_mail_open
  \/ capture_mail_line
  \/ capture_mail_render
  \/ capture_mail_except
  \/ capture_mail_finally
  \/ capture_mail_exit

Spec == Init /\ [][Next]_vars

-----------------------------------------------------------------------------
(* Vocabulary of the properties.                                           *)

Range(f) == { f[i] : i \in DOMAIN f }

Count(f, S) == Cardinality({ i \in DOMAIN f : f[i] \in S })

(* the parts of a message in the order the traversal visits them, each     *)
(* with its message index and its depth                                    *)
RECURSIVE PartsOf(_, _, _)
PartsOf(m, label, depth) ==
  << [node |-> m, label |-> label, depth |-> depth] >>
  \o (IF m.multipart
      THEN Flatten([i \in 1..Len(m.payload) |->
                      PartsOf(m.payload[i], label \o "-" \o ToString(i), depth + 1)])
      ELSE <<>>)

HeaderKinds == {"header", "group", "item", "more", "folded", "first", "single"}
BodyKinds == {"summary", "preamble", "body", "epilogue", "defects", "defect"}

Rendered == \E i \in DOMAIN log : log[i].kind = "header"

Returned == pc = "done"

OpenFailed == "open!" \in Range(fileOps)

ErrorLogged(e) ==
  \E i \in DOMAIN log :
    /\ log[i].level = ERROR
    /\ log[i].text = "Exception raised during handling stdin ("
                       \o e.cls \o ", " \o e.detail

(* the guards of the steps of capture_mail *)
CanStep ==
  \/ pc \in {"start", "open", "except", "finally", "exit"}
  \/ pc = "loop" /\ stdin.pos <= Len(stdin.lines)

AfterHandler == pc \in {"finally", "exit", "done"}

(* the charset a part is decoded with, and whether its payload fails to    *)
(* decode with it                                                          *)
ResolvedCharset(m) ==
  IF get_param(m, "charset") \in {None, ""} THEN "us-ascii" ELSE get_param(m, "charset")

Undecodable(m) ==
  /\ ~m.multipart
  /\ get_content_maintype(m) = "text"
  /\ \/ ResolvedCharset(m) # "us-ascii"
     \/ \E i \in DOMAIN m.payload : m.payload[i] >= 128

(* where the content summary line of a part is in the log *)
SummaryAt(label) ==
  { i \in DOMAIN log : log[i].kind = "summary" /\ log[i].ref = label }

(* the names of the header groups, in the order of their first lines *)
GroupKinds == {"group", "folded", "single"}

GroupOrder ==
  LET IsGroup(e) == e.kind \in GroupKinds
      gs == SelectSeq(log, IsGroup)
  IN  [i \in DOMAIN gs |-> gs[i].ref]

(* the distinct elements of a list, each at its first occurrence *)
RECURSIVE FirstOccurrences(_, _)
FirstOccurrences(ks, seen) ==
  IF ks = <<>> THEN <<>>
  ELSE (IF Head(ks) \in seen THEN <<>> ELSE << Head(ks) >>)
         \o FirstOccurrences(Tail(ks), seen \cup {Head(ks)})

(* no two names of the list differ only in letter case *)
NoCaseVariants(ks) ==
  \A i, j \in DOMAIN ks : lower(ks[i]) = lower(ks[j]) => ks[i] = ks[j]

(* str.ljust *)
LJust(str, width) == str \o Repeat(" ", width - Len(str))

(* the values of the pairs of exactly this name, in order *)
ValuesNamed(m, key) ==
  LET Named(h) == h[1] = key
      hs == SelectSeq(m.headers, Named)
  IN  [i \in DOMAIN hs |-> hs[i][2]]

(* the header lines logged for a name *)
LinesOf(key) ==
  LET About(e) == e.kind \in HeaderKinds /\ e.ref = key
  IN  SelectSeq(log, About)

(* the first line of each rendered value *)
ValueKinds == {"item", "first", "single"}

EndsWith(t, suffix) ==
  /\ Len(t) >= Len(suffix)
  /\ SubSeq(t, Len(t) - Len(suffix) + 1, Len(t)) = suffix

ValueEntries(key) ==
  LET IsValue(e) == e.kind \in ValueKinds /\ e.ref = key
  IN  SelectSeq(log, IsValue)

(* the nesting depth a message index stands for *)
Depth(label) == Cardinality({ i \in 1..Len(label) : SubSeq(label, i, i) = "-" })

(* the message indexes of the summary lines, in log order *)
SummaryLabels ==
  LET IsSummary(e) == e.kind = "summary"
      ss == SelectSeq(log, IsSummary)
  IN  [i \in DOMAIN ss |-> ss[i].ref]

-----------------------------------------------------------------------------
-----------------------------------------------------------------------------
(* C2, as stated: when opening the capture file fails, the failure is      *)
(* logged at error level, no write to the file is attempted, and the run   *)
(* still reads and echoes every stdin line and renders the transcript.     *)
C2_Original ==
  (Returned /\ OpenFailed) =>
     /\ ErrorLogged(exc)
     /\ Count(fileOps, {"write", "write!"}) = 0
     /\ stdin.pos = Len(stdin.lines)
     /\ Count([i \in DOMAIN log |-> log[i].kind], {"echo"}) = Len(stdin.lines)
     /\ Rendered

(* C2, amended: when opening the capture file fails, the failure is logged *)
(* at error level and no write to the file is attempted, and the run reads *)
(* no stdin line, echoes none, feeds none to the parser and renders no     *)
(* transcript; it goes on to its termination.                              *)
C2_OpenFailureEndsProcessing ==
  OpenFailed =>
     /\ AfterHandler => ErrorLogged(exc)
     /\ exc.cls = "PermissionError"
     /\ Count(fileOps, {"write", "write!", "open", "close", "close!"}) = 0
     /\ out_file = None
     /\ stdin.pos = 0
     /\ parser = <<>>
     /\ \A i \in DOMAIN log : log[i].kind \notin {"echo", "stdin"} \cup HeaderKinds \cup BodyKinds
     /\ pc \in {"except", "finally", "exit", "done"}

C2_Witness ==
  /\ Returned
  /\ OpenFailed
  /\ Len(stdin.lines) = MaxLines
  /\ ErrorLogged(exc)

-----------------------------------------------------------------------------
(* C4: the capture file is opened at most once; in a run that opened it,   *)
(* it has been closed exactly once when the finally clause is left, on     *)
(* every path, and it is never closed twice; no call is made on the file   *)
(* after its close.                                                        *)
C4_FileClosedExactlyOnce ==
  /\ Count(fileOps, {"open", "open!"}) <= 1
  /\ Count(fileOps, {"close", "close!"}) <= 1
  /\ (pc \in {"exit", "done"} /\ "open" \in Range(fileOps)) =>
        /\ Count(fileOps, {"close", "close!"}) = 1
        /\ out_file = "closed"
  /\ \A i \in DOMAIN fileOps :
        fileOps[i] \in {"close", "close!"} => i = Len(fileOps)
  /\ \A i \in DOMAIN fileOps :
        fileOps[i] \in {"write", "write!", "close", "close!"} => fileOps[1] = "open"

C4_Witness ==
  /\ Returned
  /\ fileOps = <<"open", "write", "write!", "close">>
  /\ exc.cls = "OSError"

-----------------------------------------------------------------------------
(* C5: when the traversal reaches a text part whose payload cannot be      *)
(* decoded with its resolved charset, the decoding error leaves the        *)
(* rendering: no body line of that part and no line of any part later in   *)
(* the traversal is logged, nothing of the transcript follows the part's   *)
(* own opening lines, the parts visited before it keep their lines, the    *)
(* handler logs an error entry with the exception's class and detail, and  *)
(* the run goes on to return the status the bounce mode asks for.          *)
C5_DecodeFailureAbortsRendering ==
  Rendered =>
    LET parts == PartsOf(msg, "0", 0)
    IN  \A k \in DOMAIN parts :
          (Undecodable(parts[k].node) /\ SummaryAt(parts[k].label) # {}) =>
             /\ exc.cls = (IF ResolvedCharset(parts[k].node) = "us-ascii"
                           THEN "UnicodeDecodeError" ELSE "LookupError")
             /\ exc.part = parts[k].label
             /\ \A i \in DOMAIN log :
                  ~(log[i].kind = "body" /\ log[i].ref = parts[k].label)
             /\ \A j \in DOMAIN parts : \A i \in DOMAIN log :
                  j > k => ~(log[i].kind \in BodyKinds /\ log[i].ref = parts[j].label)
             /\ \A j \in DOMAIN parts : j < k => SummaryAt(parts[j].label) # {}
             /\ \A i \in SummaryAt(parts[k].label) : \A j \in DOMAIN log :
                  j > i => \/ log[j].level = ERROR
                           \/ log[j].kind = "preamble" /\ log[j].ref = parts[k].label
             /\ log[CHOOSE i \in DOMAIN log : log[i].kind = "header"].text = "Header:"
             /\ pc \in {"except", "finally", "exit", "done"}
             /\ AfterHandler => ErrorLogged(exc)
             /\ Returned => ret = (IF args.do_bounce THEN <<1>> ELSE <<0>>)

C5_Witness ==
  /\ Returned
  /\ exc.cls = "UnicodeDecodeError"
  /\ exc.part = "0-1"
  /\ Len(msg.payload) = 2
  /\ SummaryAt("0") # {}
  /\ SummaryAt("0-1") # {}
  /\ SummaryAt("0-2") = {}
  /\ ErrorLogged(exc)

-----------------------------------------------------------------------------
(* C6: dump_email_header_to_logger renders the groups of the distinct      *)
(* header names in the order of each name's first occurrence in the        *)
(* message, also when the occurrences of a repeated name are interleaved   *)
(* with other headers.                                                     *)
C6_GroupsInFirstOccurrenceOrder ==
  pc = "returned" => GroupOrder = FirstOccurrences(keys(msg), {})

C6_Witness ==
  /\ pc = "returned"
  /\ keys(msg) = <<"Received", "Subject", "Received", "To">>
  /\ GroupOrder = <<"Received", "Subject", "To">>

-----------------------------------------------------------------------------
(* C7, as stated: a header name occurring N >= 2 times with single-line    *)
(* values gives N + 1 lines, the group line and N value entries, and the   *)
(* index of each value entry is left-justified in a field as wide as the   *)
(* number of digits of N - 1.  Stated for messages in which no two names   *)
(* differ only in letter case.                                             *)
C7_Original ==
  (pc = "returned" /\ NoCaseVariants(keys(msg))) =>
    \A key \in Range(keys(msg)) :
      LET vals == ValuesNamed(msg, key)
          N == Len(vals)
          group == LinesOf(key)
      IN  (N >= 2 /\ \A i \in DOMAIN vals : Len(split(vals[i])) = 1) =>
            /\ Len(group) = N + 1
            /\ group[1].text = call.prefix \o "- " \o key \o " ("
                                 \o ToString(N) \o " items):"
            /\ \A i \in 1..N :
                 group[i + 1].text =
                   call.prefix \o "- " \o LJust(ToString(i - 1), Len(ToString(N - 1)))
                     \o ": " \o rstrip(vals[i])

-----------------------------------------------------------------------------
(* C8, as stated: every header pair is rendered exactly once, so the value *)
(* entries of all groups number as many as the pairs of the message, and   *)
(* the values of a group come in the order of the pairs of that name; also *)
(* when two names differ only in letter case.                              *)
C8_Original ==
  pc = "returned" =>
    /\ Count([i \in DOMAIN log |-> log[i].kind], ValueKinds) = Len(msg.headers)
    /\ \A key \in Range(keys(msg)) :
         LET vals == ValuesNamed(msg, key)
             shown == ValueEntries(key)
         IN  /\ Len(shown) = Len(vals)
             /\ \A i \in DOMAIN vals :
                  EndsWith(shown[i].text, rstrip(split(vals[i])[1]))

-----------------------------------------------------------------------------
(* C3, as stated: the header formatter followed by the body formatter is   *)
(* applied to the top-level message and to every part at every depth, so   *)
(* each part's own headers are logged, with the part's prefix, right       *)
(* before the part's content summary line.                                 *)
C3_Original ==
  (pc = "returned" /\ exc = NoExc) =>
    LET parts == PartsOf(msg, "0", 0)
    IN  \A k \in DOMAIN parts :
          /\ SummaryAt(parts[k].label) # {}
          /\ \A i \in SummaryAt(parts[k].label) :
               LET h == dump_email_header_to_logger(parts[k].node, INFO, log[i].prefix)
               IN  /\ i > Len(h)
                   /\ SubSeq(log, i - Len(h), i - 1) = h

-----------------------------------------------------------------------------
(* C9, as stated: with root prefix P and indentation unit U, every line    *)
(* of a part at depth d carries the prefix P followed by d copies of U,    *)
(* and the parts are labelled with the parent's label, '-' and the 1-based *)
(* position among the siblings.                                            *)
C9_Original ==
  pc = "returned" =>
    LET parts == PartsOf(msg, "0", 0)
    IN  /\ Len(SummaryLabels) <= Len(parts)
        /\ \A i \in DOMAIN SummaryLabels : SummaryLabels[i] = parts[i].label
        /\ exc = NoExc => Len(SummaryLabels) = Len(parts)
        /\ \A i \in DOMAIN log :
             log[i].kind \in BodyKinds =>
               log[i].prefix = call.prefix
                                 \o Repeat(call.indent_str, Depth(log[i].ref))

-----------------------------------------------------------------------------
(* C10, as stated: a part with a non-empty epilogue has the epilogue       *)
(* logged line by line, each line after the prefix and '> ', after the     *)
(* part's body or children and before its defects, and the rendering then  *)
(* goes on without raising.  Stated for messages every text part of which  *)
(* decodes.                                                                *)
C10_Original ==
  pc = "returned" =>
    LET parts == PartsOf(msg, "0", 0)
    IN  (\A k \in DOMAIN parts : ~Undecodable(parts[k].node)) =>
          /\ exc = NoExc
          /\ \A k \in DOMAIN parts :
               truthy(parts[k].node.epilogue) =>
                 LET IsEpilogue(e) == e.kind = "epilogue" /\ e.ref = parts[k].label
                     shown == SelectSeq(log, IsEpilogue)
                     lines == split(parts[k].node.epilogue)
                 IN  /\ Len(shown) = Len(lines) + 1
                     /\ \A i \in DOMAIN lines :
                          shown[i + 1].text =
                            shown[i + 1].prefix \o "> " \o rstrip(lines[i])

=============================================================================
